---- MODULE Spec2Model ----
(***************************************************************************)
(* Model of the device Bus (vmm/src/vmm_config/device_config.rs) and of    *)
(* the GIC register save/restore (arch/src/aarch64/gic/gicv{2,3}/regs).    *)
(***************************************************************************)
EXTENDS Integers, Sequences, FiniteSets, TLC

(***************************************************************************)
(* Bounds.  u64 addresses and lengths are scaled down to 0..AddrSpace-1,   *)
(* arithmetic on them is taken modulo AddrSpace.                           *)
(***************************************************************************)
AddrSpace == 5

MaxEntries == 3

Addr == 0 .. (AddrSpace - 1)

\* Device handles (Arc<Mutex<dyn FirecrackerDevice>>).
Devices == {"d1", "d2"}

\* Affinity identifiers are drawn from 0..MaxMpidr, at most MaxVcpus of them.
MaxMpidr == 2

MaxVcpus == 2

\* Number of distributor / redistributor / GICv3 CPU-interface registers.
NumDistRegs == 2

NumRedistRegs == 2

NumSysRegs == 2

\* Register values are drawn from 0..ValMod-1.
ValMod == 3

\* Largest number of ap_icc_regs entries of a state handed to restore_state.
MaxAp == 1

\* Number of threads dispatching through the Bus concurrently.
NumThreads == 2

\* Total number of Bus::read / Bus::write calls the threads start.
MaxCalls == 3

VARIABLES
    overflow_checks,  \* build profile: TRUE = overflow panics, FALSE = wraps
    devices,          \* Bus.devices: set of [base, len, dev], keyed by base
    call,             \* the last Bus call: its arguments and what it did
    gpc,              \* position of the GIC save/restore call: idle, run, done
    gop,              \* "save" or "restore"
    grev,             \* GIC revision: 2 or 3
    mpidrs,           \* the caller's affinity identifiers
    state_n,          \* restore: number of entries of state.gic_vcpu_states
    gph,              \* index of the current phase of the call
    gr,               \* index of the next register within the phase
    gtrace,           \* primitive device accesses issued so far, in order
    gresult,          \* "none", "Ok", "Err" or "InconsistentVcpuCount"
    vcpu_states,      \* save: the selectors of the vcpu_states pushed so far
    regs,             \* the device's registers: [group, cpu, reg] -> value
    regs0,            \* the registers as they were before the first call
    gstate,           \* the state object built by save / read by restore
    prev_state,       \* the state object returned by the previous save
    ncalls,           \* number of calls made on the device so far
    tpc,              \* per thread: position inside Bus::read / Bus::write
    tcall,            \* per thread: read or write, and the device resolved
    lock_holder,      \* per device: the thread holding its Mutex, 0 when free
    poisoned,         \* per device: the Mutex's poison flag
    hist,             \* device-side events of all threads, in order
    ccalls,           \* number of Bus::read / Bus::write calls started
    attr_pc,          \* kvm_device_attr: "in" before the call, "out" after
    attr_cpuid,       \* kvm_device_attr: the cpuid argument (set of 1-bits)
    attr_offset,      \* kvm_device_attr: the offset argument (set of 1-bits)
    attr_out          \* kvm_device_attr: the attr field built (set of 1-bits)

busvars == <<overflow_checks, devices, call>>

gicvars == <<gpc, gop, grev, mpidrs, state_n, gph, gr, gtrace, gresult, vcpu_states,
            regs, regs0, gstate, prev_state, ncalls>>

concvars == <<tpc, tcall, lock_holder, poisoned, hist, ccalls>>

attrvars == <<attr_pc, attr_cpuid, attr_offset, attr_out>>

vars == <<overflow_checks, devices, call, gpc, gop, grev, mpidrs, state_n, gph,
          gr, gtrace, gresult, vcpu_states, regs, regs0, gstate, prev_state, ncalls,
          tpc, tcall, lock_holder, poisoned, hist, ccalls,
          attr_pc, attr_cpuid, attr_offset, attr_out>>

\* Threads calling Bus::read / Bus::write on a shared &Bus.
Threads == 1 .. NumThreads

NoTCall == [kind |-> "none", dev |-> "none"]

NoCall ==
    [op |-> "none", addr |-> 0, len |-> 0, dev |-> "none", result |-> "none",
     fwd |-> <<>>, locked |-> {}, touched |-> FALSE]

(***************************************************************************)
(* BusRange and the BTreeMap keyed by it.                                  *)
(***************************************************************************)
\* BusRange(base, len) with the device handle it maps to.
BusRange(base, len, device) == [base |-> base, len |-> len, dev |-> device]

\* BusRange::eq / BusRange::cmp: by base only.
range_eq(a, b) == a.base = b.base

\* BTreeMap::insert: an equal key keeps the old key and replaces the value,
\* returning the old value (is_some() is TRUE).
btree_insert(devs, base, len, device) ==
    LET old == {e \in devs : range_eq(e, BusRange(base, len, device))}
    IN  IF old = {}
        THEN [map |-> devs \cup {BusRange(base, len, device)}, replaced |-> FALSE]
        ELSE [map |-> (devs \ old) \cup {BusRange(e.base, e.len, device) : e \in old},
              replaced |-> TRUE]

\* Bus::first_before: the first range, in descending base order, with
\* range.0 <= addr (a set with at most one element stands for the Option).
first_before_strict(devs, addr) ==
    {e \in devs : e.base < addr /\ \A f \in devs : f.base < addr => f.base <= e.base}

first_before(devs, addr) ==
    {e \in devs : e.base <= addr /\ \A f \in devs : f.base <= addr => f.base <= e.base}

\* Bus::get_device: offset = addr - start, Some((offset, dev)) when offset < len.
get_device(devs, addr) ==
    {[offset |-> addr - e.base, dev |-> e.dev] :
        e \in {x \in first_before(devs, addr) : addr - x.base < x.len}}

\* `len == 0` early return of Bus::insert.
zero_len_never(len) == FALSE

zero_len(len) == len = 0

\* `base + len` exceeds the integer width (u64 scaled to AddrSpace).
overflows(base, len) == base + len >= AddrSpace

\* `base + len - 1` in wrapping arithmetic.
range_end(base, len) == (base + len - 1) % AddrSpace

\* Bus::insert as a function of the table, its arguments and the build
\* profile: the result and the table afterwards.
insert(devs, device, base, len, checked) ==
    IF zero_len(len)
    THEN [result |-> "Overlap", devices |-> devs]
    ELSE IF get_device(devs, base) # {}
    THEN [result |-> "Overlap", devices |-> devs]
    ELSE IF overflows(base, len) /\ checked
    THEN [result |-> "Panic", devices |-> devs]
    ELSE IF \E e \in first_before(devs, range_end(base, len)) : e.base >= base
    THEN [result |-> "Overlap", devices |-> devs]
    ELSE LET r == btree_insert(devs, base, len, device)
         IN  [result |-> IF r.replaced THEN "Overlap" ELSE "Ok", devices |-> r.map]

(***************************************************************************)
(* The interrupt controller's registers and the saved state object.        *)
(***************************************************************************)
Key(group, cpu, reg) == [group |-> group, cpu |-> cpu, reg |-> reg]

\* Gicv2State / GicState with nothing read yet.
EmptyState == [dist |-> <<>>, vcpus |-> <<>>]

\* GicVcpuState with nothing read yet; get_icc_regs leaves ap_icc_regs empty.
EmptyVcpu == [rdist |-> <<>>, icc |-> <<>>, ap |-> <<>>]

(***************************************************************************)
(* Bus operations.                                                         *)
(***************************************************************************)
\* No thread is inside the Bus, every device lock is free and clean.
ConcIdle ==
    /\ tpc = [t \in Threads |-> "idle"]
    /\ tcall = [t \in Threads |-> NoTCall]
    /\ lock_holder = [d \in Devices |-> 0]
    /\ poisoned = [d \in Devices |-> FALSE]
    /\ hist = <<>>
    /\ ccalls = 0

\* kvm_device_attr has not been called.
AttrIdle ==
    /\ attr_pc = "idle"
    /\ attr_cpuid = {}
    /\ attr_offset = {}
    /\ attr_out = {}

GicIdle ==
    /\ gpc = "idle"
    /\ gop = "none"
    /\ grev = 0
    /\ mpidrs = <<>>
    /\ state_n = 0
    /\ gph = 0
    /\ gr = 0
    /\ gtrace = <<>>
    /\ gresult = "none"
    /\ vcpu_states = <<>>
    /\ gstate = EmptyState
    /\ prev_state = EmptyState
    /\ ncalls = 0

BusInit ==
    /\ overflow_checks \in BOOLEAN
    /\ devices = {}
    /\ call = NoCall
    /\ GicIdle
    /\ regs = <<>>
    /\ regs0 = <<>>
    /\ ConcIdle
    /\ AttrIdle

Insert(device, base, len) ==
    LET r == insert(devices, device, base, len, overflow_checks)
    IN  /\ call.op = "none"
        /\ Cardinality(r.devices) <= MaxEntries
        /\ devices' = r.devices
        /\ call' = [op |-> "insert", addr |-> base, len |-> len, dev |-> device,
                    result |-> r.result, fwd |-> <<>>, locked |-> {},
                    touched |-> FALSE]
        /\ UNCHANGED <<overflow_checks, gicvars, concvars, attrvars>>

\* Bus::read / Bus::write: resolve, lock the device, forward with the offset.
dispatch(devs, kind, addr) ==
    LET g == get_device(devs, addr)
    IN  IF g # {}
        THEN LET t == CHOOSE x \in g : TRUE
             IN  [op |-> kind, addr |-> addr, len |-> 0, dev |-> "none",
                  result |-> "true",
                  fwd |-> <<[dev |-> t.dev, kind |-> kind, offset |-> t.offset]>>,
                  locked |-> {t.dev}, touched |-> (kind = "read")]
        ELSE [op |-> kind, addr |-> addr, len |-> 0, dev |-> "none",
              result |-> "false", fwd |-> <<>>, locked |-> {}, touched |-> FALSE]

Read(addr) ==
    /\ call.op = "none"
    /\ call' = dispatch(devices, "read", addr)
    /\ UNCHANGED <<devices, overflow_checks, gicvars, concvars, attrvars>>

Write(addr) ==
    /\ call.op = "none"
    /\ call' = dispatch(devices, "write", addr)
    /\ UNCHANGED <<devices, overflow_checks, gicvars, concvars, attrvars>>

\* The call returns to its caller; the Bus is ready for the next call.
Return ==
    /\ call.op # "none"
    /\ call' = NoCall
    /\ UNCHANGED <<devices, overflow_checks, gicvars, concvars, attrvars>>

BusNext ==
    \/ \E d \in Devices, b \in Addr, l \in Addr : Insert(d, b, l)
    \/ \E a \in Addr : Read(a)
    \/ \E a \in Addr : Write(a)
    \/ Return

SpecBus == BusInit /\ [][BusNext]_vars

(***************************************************************************)
(* GIC register save/restore.  A call runs through a sequence of phases;   *)
(* a phase is one register group of one VCPU (or of the distributor), the  *)
(* pending-table flush, or the VCPU-count check of restore_state.          *)
(***************************************************************************)
Mpidr == 0 .. MaxMpidr

\* Sequences over S of length at most n.
SeqUpTo(S, n) == UNION {[1 .. k -> S] : k \in 0 .. n}

\* Offsets of the GICv2 CPU-interface registers saved and restored.
MAIN_VGIC_ICC_REGS == <<0, 4, 8, 28>>

Phase(group, cpu, entry) == [group |-> group, cpu |-> cpu, entry |-> entry]

Min(a, b) == IF a <= b THEN a ELSE b

\* gicv2 save_state loop: for mpidr in mpidrs { get_icc_regs(fd, *mpidr) }.
RECURSIVE save_loop_v2_skip_last(_, _)
save_loop_v2_skip_last(ids, i) ==
    IF i >= Len(ids) THEN <<>>
    ELSE <<Phase("icc", ids[i], i)>> \o save_loop_v2_skip_last(ids, i + 1)

RECURSIVE save_loop_v2(_, _)
save_loop_v2(ids, i) ==
    IF i > Len(ids) THEN <<>>
    ELSE <<Phase("icc", ids[i], i)>> \o save_loop_v2(ids, i + 1)

\* gicv3 save_state loop: get_redist_regs then get_icc_regs for each mpidr.
RECURSIVE save_loop_v3_icc_first(_, _)
save_loop_v3_icc_first(ids, i) ==
    IF i > Len(ids) THEN <<>>
    ELSE <<Phase("icc", ids[i], i), Phase("redist", ids[i], i)>>
            \o save_loop_v3_icc_first(ids, i + 1)

RECURSIVE save_loop_v3(_, _)
save_loop_v3(ids, i) ==
    IF i > Len(ids) THEN <<>>
    ELSE <<Phase("redist", ids[i], i), Phase("icc", ids[i], i)>>
            \o save_loop_v3(ids, i + 1)

\* gicv2 restore_state loop over mpidrs.iter().zip(&state.gic_vcpu_states).
RECURSIVE restore_loop_v2(_, _, _)
restore_loop_v2(ids, n, i) ==
    IF i > Min(Len(ids), n) THEN <<>>
    ELSE <<Phase("icc", ids[i], i)>> \o restore_loop_v2(ids, n, i + 1)

\* gicv3 restore_state loop over mpidrs.iter().zip(&state.gic_vcpu_states).
RECURSIVE restore_loop_v3_reversed(_, _, _)
restore_loop_v3_reversed(ids, n, i) ==
    IF i > Min(Len(ids), n) THEN <<>>
    ELSE <<Phase("redist", ids[Len(ids) + 1 - i], i),
           Phase("icc", ids[Len(ids) + 1 - i], i)>>
            \o restore_loop_v3_reversed(ids, n, i + 1)

RECURSIVE restore_loop_v3(_, _, _)
restore_loop_v3(ids, n, i) ==
    IF i > Min(Len(ids), n) THEN <<>>
    ELSE <<Phase("redist", ids[i], i), Phase("icc", ids[i], i)>>
            \o restore_loop_v3(ids, n, i + 1)

\* gicv2 save_state: the per-VCPU loop, then the distributor in the
\* struct literal of the result.
save_state_v2_dist_first(ids) == <<Phase("dist", 0, 0)>> \o save_loop_v2(ids, 1)

save_state_v2(ids) == save_loop_v2(ids, 1) \o <<Phase("dist", 0, 0)>>

\* gicv3 save_state: save_pending_tables, the per-VCPU loop, the distributor.
save_state_v3_flush_late(ids) ==
    save_loop_v3(ids, 1) \o <<Phase("flush", 0, 0), Phase("dist", 0, 0)>>

save_state_v3(ids) ==
    <<Phase("flush", 0, 0)>> \o save_loop_v3(ids, 1) \o <<Phase("dist", 0, 0)>>

\* gicv2 restore_state: set_dist_regs, the count check, the zip loop.
restore_state_v2_check_last(ids, n) ==
    <<Phase("dist", 0, 0)>> \o restore_loop_v2(ids, n, 1) \o <<Phase("check", 0, 0)>>

restore_state_v2(ids, n) ==
    <<Phase("dist", 0, 0), Phase("check", 0, 0)>> \o restore_loop_v2(ids, n, 1)

\* gicv3 restore_state: set_dist_regs, the count check, the zip loop.
restore_state_v3_dist_last(ids, n) ==
    <<Phase("check", 0, 0)>> \o restore_loop_v3(ids, n, 1) \o <<Phase("dist", 0, 0)>>

restore_state_v3(ids, n) ==
    <<Phase("dist", 0, 0), Phase("check", 0, 0)>> \o restore_loop_v3(ids, n, 1)

\* Number of registers a phase accesses, one primitive access each.
reg_count(rev, group) ==
    CASE group = "flush" -> 1
      [] group = "dist" -> NumDistRegs
      [] group = "redist" -> NumRedistRegs
      [] group = "icc" -> IF rev = 2 THEN Len(MAIN_VGIC_ICC_REGS) ELSE NumSysRegs

\* The phases of the call in progress.
plan ==
    IF gop = "save"
    THEN IF grev = 2 THEN save_state_v2(mpidrs) ELSE save_state_v3(mpidrs)
    ELSE IF grev = 2 THEN restore_state_v2(mpidrs, state_n)
         ELSE restore_state_v3(mpidrs, state_n)

cur == plan[gph]

\* Registers of the device: the distributor's, and each VCPU's
\* redistributor and CPU-interface registers.
RegKeys ==
    {Key("dist", 0, r) : r \in 1 .. NumDistRegs}
    \cup {Key("redist", c, r) : c \in Mpidr, r \in 1 .. NumRedistRegs}
    \cup {Key("icc", c, r) : c \in Mpidr,
            r \in 1 .. (Len(MAIN_VGIC_ICC_REGS) + NumSysRegs)}

\* Register contents a device may hold when the first call is made.
InitRegs ==
    {[k \in RegKeys |->
        (s + k.cpu + k.reg + (IF k.group = "icc" THEN 1 ELSE 0)) % ValMod] :
     s \in 0 .. (ValMod - 1)}

\* A state object with n per-VCPU entries, every register value 0 and k
\* absent ap_icc_regs entries per VCPU.
InputState(rev, n, k) ==
    [dist |-> [r \in 1 .. NumDistRegs |-> 0],
     vcpus |-> [i \in 1 .. n |->
        [rdist |-> IF rev = 3 THEN [r \in 1 .. NumRedistRegs |-> 0] ELSE <<>>,
         icc |-> [r \in 1 .. (IF rev = 2 THEN Len(MAIN_VGIC_ICC_REGS) ELSE NumSysRegs)
                    |-> 0],
         ap |-> [j \in 1 .. k |-> "None"]]]]

\* get device attribute: the value of the register addressed.
device_get(rf, p, r) == rf[Key(p.group, p.cpu, r)]

\* set device attribute: the register addressed takes the value.
device_set(rf, p, r, v) == [rf EXCEPT ![Key(p.group, p.cpu, r)] = v]

\* The state object with value v pushed onto the vector phase p fills.
push_value(st, p, v) ==
    IF p.group = "dist"
    THEN [st EXCEPT !.dist = Append(@, v)]
    ELSE LET vs == IF Len(st.vcpus) < p.entry
                   THEN Append(st.vcpus, EmptyVcpu) ELSE st.vcpus
         IN  [st EXCEPT !.vcpus =
                IF p.group = "redist"
                THEN [vs EXCEPT ![p.entry].rdist = Append(@, v)]
                ELSE [vs EXCEPT ![p.entry].icc = Append(@, v)]]

\* The value of the state object that phase p writes to its register r.
state_value(st, p, r) ==
    IF p.group = "dist" THEN st.dist[r]
    ELSE IF p.group = "redist" THEN st.vcpus[p.entry].rdist[r]
    ELSE st.vcpus[p.entry].icc[r]

\* The primitive access at the current position.
access(ok) ==
    [kind |-> IF cur.group = "flush" THEN "flush"
              ELSE IF gop = "save" THEN "get" ELSE "set",
     group |-> cur.group, cpu |-> cur.cpu, entry |-> cur.entry, reg |-> gr,
     ok |-> ok]

GicInit ==
    /\ GicIdle
    /\ regs \in InitRegs
    /\ regs0 = regs
    /\ overflow_checks = FALSE
    /\ devices = {}
    /\ call = NoCall
    /\ ConcIdle
    /\ AttrIdle

StartSave(rev, ids) ==
    /\ gpc = "idle"
    /\ gpc' = "run"
    /\ gop' = "save"
    /\ grev' = rev
    /\ mpidrs' = ids
    /\ state_n' = 0
    /\ gph' = 1
    /\ gr' = 1
    /\ ncalls' = 1
    /\ UNCHANGED <<gtrace, gresult, vcpu_states, regs, regs0, gstate, prev_state,
                   busvars, concvars, attrvars>>

StartRestore(rev, ids, n, k) ==
    /\ gpc = "idle"
    /\ gpc' = "run"
    /\ gop' = "restore"
    /\ grev' = rev
    /\ mpidrs' = ids
    /\ state_n' = n
    /\ gstate' = InputState(rev, n, k)
    /\ gph' = 1
    /\ gr' = 1
    /\ ncalls' = 1
    /\ UNCHANGED <<gtrace, gresult, vcpu_states, regs, regs0, prev_state, busvars, concvars, attrvars>>

\* restore_state called with the state a save just returned and the same
\* affinity identifiers.
RestoreSaved ==
    /\ gpc = "done"
    /\ gop = "save"
    /\ gresult = "Ok"
    /\ ncalls = 1
    /\ gpc' = "run"
    /\ gop' = "restore"
    /\ state_n' = Len(gstate.vcpus)
    /\ gph' = 1
    /\ gr' = 1
    /\ gtrace' = <<>>
    /\ gresult' = "none"
    /\ ncalls' = 2
    /\ UNCHANGED <<grev, mpidrs, vcpu_states, regs, regs0, gstate, prev_state, busvars, concvars, attrvars>>

\* save_state called again after that restore, with the same identifiers.
SaveAgain ==
    /\ gpc = "done"
    /\ gop = "restore"
    /\ gresult = "Ok"
    /\ ncalls = 2
    /\ gpc' = "run"
    /\ gop' = "save"
    /\ state_n' = 0
    /\ gph' = 1
    /\ gr' = 1
    /\ gtrace' = <<>>
    /\ gresult' = "none"
    /\ vcpu_states' = <<>>
    /\ prev_state' = gstate
    /\ gstate' = EmptyState
    /\ ncalls' = 3
    /\ UNCHANGED <<grev, mpidrs, regs, regs0, busvars, concvars, attrvars>>

\* Leave the current phase: enter the next one, or return Ok after the last.
NextPhase ==
    IF gph < Len(plan)
    THEN /\ gph' = gph + 1
         /\ gr' = 1
         /\ UNCHANGED <<gpc, gresult>>
    ELSE /\ gpc' = "done"
         /\ gresult' = "Ok"
         /\ UNCHANGED <<gph, gr>>

\* The register engine ends a group's call with an error at the first
\* primitive access that fails.
engine_access(ok) == IF ok THEN "Ok" ELSE "Err"

\* The `?` applied to the result of a register-group call.
try_ignore_error(r) == "continue"

try_op(r) == IF r = "Ok" THEN "continue" ELSE "return"

\* One primitive access, which succeeds (ok) or fails.
Step(ok) ==
    /\ gpc = "run"
    /\ cur.group # "check"
    /\ gtrace' = Append(gtrace, access(ok))
    /\ IF try_op(engine_access(ok)) = "continue"
       THEN IF gr < reg_count(grev, cur.group)
            THEN /\ gr' = gr + 1
                 /\ UNCHANGED <<gpc, gph, gresult, vcpu_states>>
            ELSE /\ NextPhase
                 /\ vcpu_states' =
                      IF gop = "save" /\ cur.group = "icc"
                      THEN Append(vcpu_states, cur.cpu)
                      ELSE vcpu_states
       ELSE /\ gpc' = "done"
            /\ gresult' = "Err"
            /\ vcpu_states' = <<>>
            /\ UNCHANGED <<gph, gr>>
    /\ IF ok /\ gop = "save" /\ cur.group # "flush"
       THEN gstate' = push_value(gstate, cur, device_get(regs, cur, gr))
       ELSE IF ~ok /\ gop = "save" /\ try_op(engine_access(ok)) = "return"
       THEN gstate' = EmptyState
       ELSE UNCHANGED gstate
    /\ IF ok /\ gop = "restore"
       THEN regs' = device_set(regs, cur, gr, state_value(gstate, cur, gr))
       ELSE UNCHANGED regs
    /\ UNCHANGED <<gop, grev, mpidrs, state_n, regs0, prev_state, ncalls, busvars, concvars, attrvars>>

\* One primitive access succeeds.
AccessOk == Step(TRUE)

\* One primitive access fails: `?` returns the error at once.
AccessFail == Step(FALSE)

\* restore_state: mpidrs.len() != state.gic_vcpu_states.len().
CheckCount ==
    /\ gpc = "run"
    /\ cur.group = "check"
    /\ IF Len(mpidrs) # state_n
       THEN /\ gpc' = "done"
            /\ gresult' = "InconsistentVcpuCount"
            /\ UNCHANGED <<gph, gr>>
       ELSE NextPhase
    /\ UNCHANGED <<gop, grev, mpidrs, state_n, gtrace, vcpu_states, regs, regs0,
                   gstate, prev_state, ncalls, busvars, concvars, attrvars>>

GicNext ==
    \/ \E rev \in {2, 3}, ids \in SeqUpTo(Mpidr, MaxVcpus) : StartSave(rev, ids)
    \/ \E rev \in {2, 3}, ids \in SeqUpTo(Mpidr, MaxVcpus), n \in 0 .. MaxVcpus,
          k \in 0 .. MaxAp :
            StartRestore(rev, ids, n, k)
    \/ RestoreSaved
    \/ SaveAgain
    \/ AccessOk
    \/ AccessFail
    \/ CheckCount

SpecGic == GicInit /\ [][GicNext]_vars

(***************************************************************************)
(* Properties of the Bus.                                                  *)
(***************************************************************************)
\* a lies in the half-open interval [e.base, e.base + e.len).
Contains(e, a) == e.base <= a /\ a < e.base + e.len

\* [e.base, e.base + e.len) and [base, base + len) have a point in common.
Intersects(e, base, len) == e.base < base + len /\ base < e.base + e.len

Owners(a) == {e \in devices : Contains(e, a)}

\* C1: after any sequence of insert calls every stored range has length > 0
\* and the stored ranges are pairwise disjoint as half-open intervals.
C1_RangesDisjoint ==
    /\ \A e \in devices : e.len > 0
    /\ \A e, f \in devices : e # f => ~Intersects(e, f.base, f.len)

\* C2: an insert that returns Overlap leaves the table as it was: the same
\* ranges, each with the same device handle.
C2_OverlapLeavesBusUnchanged ==
    [][(call'.op = "insert" /\ call'.result = "Overlap") => devices' = devices]_vars

\* C2 witness: an insert at the base of a range held by another device was
\* rejected.
C2_Witness ==
    /\ call.op = "insert"
    /\ call.result = "Overlap"
    /\ \E e \in devices : e.base = call.addr /\ e.dev # call.dev

\* C3: an insert with len > 0 whose range intersects a stored range
\* returns Overlap.
C3_IntersectingInsertRejected ==
    [][(/\ call'.op = "insert"
        /\ call'.len > 0
        /\ \E e \in devices : Intersects(e, call'.addr, call'.len))
       => call'.result = "Overlap"]_vars

\* C4: for every address a, get_device(a) is the one device whose range
\* contains a, with offset a - base, and nothing when no range contains a.
C4_LookupCorrect ==
    \A a \in Addr :
        IF Owners(a) = {}
        THEN get_device(devices, a) = {}
        ELSE /\ Cardinality(Owners(a)) = 1
             /\ get_device(devices, a) =
                    {[offset |-> a - e.base, dev |-> e.dev] : e \in Owners(a)}

\* C5: read and write return true exactly when a stored range contains addr,
\* then forwarding one operation to the owner with offset addr - base; else
\* they lock nothing, forward nothing and leave the buffer alone.
C5_DispatchCorrect ==
    call.op \in {"read", "write"} =>
        IF Owners(call.addr) = {}
        THEN /\ call.result = "false"
             /\ call.fwd = <<>>
             /\ call.locked = {}
             /\ ~call.touched
        ELSE /\ call.result = "true"
             /\ Len(call.fwd) = 1
             /\ \E e \in Owners(call.addr) :
                    /\ call.fwd[1] = [dev |-> e.dev, kind |-> call.op,
                                      offset |-> call.addr - e.base]
                    /\ call.locked = {e.dev}

\* C6: an insert at the base of a stored range returns Overlap whatever the
\* lengths, and that range keeps its length and its device.
C6_SameBaseRejected ==
    [][call'.op = "insert" =>
        \A e \in devices :
            e.base = call'.addr => (call'.result = "Overlap" /\ e \in devices')]_vars

\* C6 witness: a second insert at a stored base, with another length and
\* another device, was rejected.
C6_Witness ==
    /\ call.op = "insert"
    /\ call.result = "Overlap"
    /\ call.len > 0
    /\ \E e \in devices :
        e.base = call.addr /\ e.len # call.len /\ e.dev # call.dev

\* C7: insert with len = 0 returns Overlap for every base and table, and
\* adds no entry.
C7_ZeroLengthRejected ==
    [][(call'.op = "insert" /\ call'.len = 0) =>
        (call'.result = "Overlap" /\ devices' = devices)]_vars

\* C7 witness: a zero-length insert into the empty Bus was rejected.
C7_Witness ==
    /\ call.op = "insert"
    /\ call.len = 0
    /\ call.result = "Overlap"
    /\ devices = {}

(***************************************************************************)
(* Properties of the GIC save/restore.                                     *)
(***************************************************************************)
PerVcpu(a) == a.group \in {"redist", "icc"}

TraceIdx == DOMAIN gtrace

\* C8 as stated: in save_state every distributor read precedes every
\* per-VCPU read, and no distributor register is read twice.
C8_DistBeforeVcpu ==
    gop = "save" =>
        /\ \A j, k \in TraceIdx :
            (gtrace[j].group = "dist" /\ PerVcpu(gtrace[k])) => j < k
        /\ \A j, k \in TraceIdx :
            (gtrace[j].group = "dist" /\ gtrace[k].group = "dist" /\ j # k)
                => gtrace[j].reg # gtrace[k].reg

\* C8 amended: in save_state (both revisions) every per-VCPU read precedes
\* every distributor read, no distributor register is read twice, and a
\* successful save has read each distributor register exactly once.
C8_DistAfterVcpu ==
    gop = "save" =>
        /\ \A j, k \in TraceIdx :
            (PerVcpu(gtrace[j]) /\ gtrace[k].group = "dist") => j < k
        /\ \A j, k \in TraceIdx :
            (gtrace[j].group = "dist" /\ gtrace[k].group = "dist" /\ j # k)
                => gtrace[j].reg # gtrace[k].reg
        /\ \A k \in TraceIdx : gtrace[k].group = "dist" => gtrace[k].kind = "get"
        /\ gresult = "Ok" =>
            \A r \in 1 .. NumDistRegs :
                \E k \in TraceIdx : gtrace[k].group = "dist" /\ gtrace[k].reg = r

\* C8 witness: a save of two VCPUs returned Ok.
C8_Witness ==
    /\ gop = "save"
    /\ gresult = "Ok"
    /\ Len(mpidrs) = 2
    /\ \E k \in TraceIdx : gtrace[k].group = "dist"
    /\ \E k \in TraceIdx : PerVcpu(gtrace[k])

\* C9: in GICv3 save_state the pending-table flush is the first access,
\* before any register read, and a failed flush ends the call with the
\* error and no register read.
C9_FlushFirst ==
    (gop = "save" /\ grev = 3) =>
        /\ \A k \in TraceIdx : (gtrace[k].kind = "flush") <=> (k = 1)
        /\ (gtrace # <<>> /\ ~gtrace[1].ok) =>
            (Len(gtrace) = 1 /\ gpc = "done" /\ gresult = "Err")
        /\ gresult = "Ok" => (gtrace # <<>> /\ gtrace[1].ok)

\* C9 witness: a GICv3 save whose flush succeeded went on to read
\* redistributor, CPU-interface and distributor registers.
C9_Witness ==
    /\ gop = "save"
    /\ grev = 3
    /\ gtrace # <<>>
    /\ gtrace[1].kind = "flush"
    /\ \A g \in {"redist", "icc", "dist"} :
        \E k \in TraceIdx : gtrace[k].group = g /\ gtrace[k].kind = "get"

\* C10: in restore_state (both revisions) every distributor write precedes
\* every per-VCPU write, state entry i is written with affinity_ids[i], and
\* the entries are written in increasing order of i.
C10_RestoreOrder ==
    gop = "restore" =>
        /\ \A k \in TraceIdx : gtrace[k].kind = "set"
        /\ \A j, k \in TraceIdx :
            (gtrace[j].group = "dist" /\ PerVcpu(gtrace[k])) => j < k
        /\ \A k \in TraceIdx :
            PerVcpu(gtrace[k]) =>
                /\ gtrace[k].entry \in 1 .. Len(mpidrs)
                /\ gtrace[k].cpu = mpidrs[gtrace[k].entry]
        /\ \A j, k \in TraceIdx :
            (PerVcpu(gtrace[j]) /\ PerVcpu(gtrace[k]) /\ j < k)
                => gtrace[j].entry <= gtrace[k].entry
        /\ (\E k \in TraceIdx : PerVcpu(gtrace[k])) =>
            \A r \in 1 .. NumDistRegs :
                \E k \in TraceIdx :
                    gtrace[k].group = "dist" /\ gtrace[k].reg = r /\ gtrace[k].ok

\* C10 witness: a restore of two VCPUs with different affinity identifiers
\* returned Ok.
C10_Witness ==
    /\ gop = "restore"
    /\ gresult = "Ok"
    /\ Len(mpidrs) = 2
    /\ mpidrs[1] # mpidrs[2]
    /\ \E k \in TraceIdx : PerVcpu(gtrace[k]) /\ gtrace[k].entry = 2

Mismatch == gop = "restore" /\ Len(mpidrs) # state_n

\* C11: restore_state with a number of affinity identifiers different from
\* the number of per-VCPU entries fails with InconsistentVcpuCount and
\* issues no register write at all.
C11_MismatchZeroWrites ==
    Mismatch =>
        /\ gtrace = <<>>
        /\ gpc = "done" => gresult = "InconsistentVcpuCount"

\* C12: when the number of affinity identifiers differs from the number of
\* per-VCPU entries, restore_state issues no redistributor or CPU-interface
\* write, and it ends in an error.
C12_MismatchNoVcpuWrite ==
    Mismatch =>
        /\ \A k \in TraceIdx : ~PerVcpu(gtrace[k])
        /\ gpc = "done" => gresult \in {"InconsistentVcpuCount", "Err"}
        /\ (gpc = "done" /\ \A k \in TraceIdx : gtrace[k].ok)
                => gresult = "InconsistentVcpuCount"

\* C12 witness: a restore with identifiers and entries both present but of
\* different number ended with InconsistentVcpuCount.
C12_Witness ==
    /\ Mismatch
    /\ Len(mpidrs) >= 1
    /\ state_n >= 1
    /\ gpc = "done"
    /\ gresult = "InconsistentVcpuCount"

\* C13: a failing primitive access ends the save or restore with the error:
\* it is the last access issued (none follows, none is repeated) and a save
\* keeps no partial state.
C13_FailureIsTerminal ==
    \A k \in TraceIdx :
        ~gtrace[k].ok =>
            /\ k = Len(gtrace)
            /\ gpc = "done"
            /\ gresult = "Err"
            /\ vcpu_states = <<>>

\* C13 witness: a save failed while reading the second VCPU, after the
\* first VCPU's state had been collected.
C13_Witness ==
    /\ gop = "save"
    /\ gpc = "done"
    /\ gresult = "Err"
    /\ gtrace # <<>>
    /\ ~gtrace[Len(gtrace)].ok
    /\ gtrace[Len(gtrace)].entry = 2

\* C18: in GICv3 save_state and restore_state, within one VCPU every
\* redistributor access precedes every CPU-interface access, and every
\* access for VCPU i precedes every access for VCPU i + 1.
C18_RedistBeforeIcc ==
    grev = 3 =>
        \A j, k \in TraceIdx :
            (PerVcpu(gtrace[j]) /\ PerVcpu(gtrace[k])) =>
                /\ (/\ gtrace[j].entry = gtrace[k].entry
                    /\ gtrace[j].group = "redist"
                    /\ gtrace[k].group = "icc") => j < k
                /\ gtrace[j].entry < gtrace[k].entry => j < k

\* C18 witness: a GICv3 call reached the CPU-interface registers of its
\* second VCPU.
C18_Witness ==
    /\ grev = 3
    /\ \E k \in TraceIdx : gtrace[k].group = "icc" /\ gtrace[k].entry = 2
    /\ \E k \in TraceIdx : gtrace[k].group = "redist" /\ gtrace[k].entry = 2

AllOk == \A k \in TraceIdx : gtrace[k].ok

C17_AbsentApRejected ==
    (/\ grev = 2
     /\ gop = "restore"
     /\ gpc = "done"
     /\ AllOk
     /\ Len(mpidrs) = state_n
     /\ state_n >= 1
     /\ \A i \in DOMAIN gstate.vcpus :
            /\ gstate.vcpus[i].ap # <<>>
            /\ \A j \in DOMAIN gstate.vcpus[i].ap : gstate.vcpus[i].ap[j] = "None")
    => gresult = "InvalidVgicSysRegState"

\* C19: a successful save returns one per-VCPU entry per affinity
\* identifier, entry i holding the registers read with affinity_ids[i];
\* restoring that state with the same identifiers never fails with
\* InconsistentVcpuCount.
C19_SavePositional ==
    /\ (gop = "save" /\ gresult = "Ok") =>
        /\ Len(gstate.vcpus) = Len(mpidrs)
        /\ vcpu_states = mpidrs
        /\ \A i \in DOMAIN gstate.vcpus :
            /\ \A r \in DOMAIN gstate.vcpus[i].icc :
                gstate.vcpus[i].icc[r] = regs[Key("icc", mpidrs[i], r)]
            /\ \A r \in DOMAIN gstate.vcpus[i].rdist :
                gstate.vcpus[i].rdist[r] = regs[Key("redist", mpidrs[i], r)]
            /\ Len(gstate.vcpus[i].icc) = reg_count(grev, "icc")
            /\ grev = 3 => Len(gstate.vcpus[i].rdist) = reg_count(grev, "redist")
    /\ ncalls = 2 => gresult # "InconsistentVcpuCount"

\* C19 witness: the state saved for two VCPUs was restored with the same
\* identifiers and the restore returned Ok.
C19_Witness ==
    /\ ncalls = 2
    /\ gop = "restore"
    /\ gpc = "done"
    /\ gresult = "Ok"
    /\ Len(mpidrs) = 2

(***************************************************************************)
(* Concurrent dispatch.  The range table is complete before the Bus is     *)
(* shared (insert takes &mut self); threads then call Bus::read and        *)
(* Bus::write on &self.  A call resolves the device without any lock,      *)
(* locks the device's Mutex, runs the device operation under the guard and *)
(* drops the guard at the end of the statement.                            *)
(***************************************************************************)
\* Range tables built by two accepted inserts; address 4 is left unmapped.
ConcTables ==
    {insert(insert({}, a, 0, 2, TRUE).devices, b, 2, 2, TRUE).devices :
        a \in Devices, b \in Devices}

ConcInit ==
    /\ overflow_checks = TRUE
    /\ devices \in ConcTables
    /\ call = NoCall
    /\ GicIdle
    /\ regs = <<>>
    /\ regs0 = <<>>
    /\ ConcIdle
    /\ AttrIdle

\* Mutex::lock: blocks while another thread holds the guard; once the lock
\* is taken the result is Err(PoisonError) when the poison flag is set.
mutex_lock_global(holder, flag) ==
    IF \E d \in Devices : lock_holder[d] # 0 THEN "blocked"
    ELSE IF flag THEN "poisoned" ELSE "acquired"

mutex_lock_unguarded(holder, flag) ==
    IF flag THEN "poisoned" ELSE "acquired"

mutex_lock(holder, flag) ==
    IF holder # 0 THEN "blocked"
    ELSE IF flag THEN "poisoned" ELSE "acquired"

\* LockResult::expect("Failed to acquire device lock").
expect_into_inner(res) == "guard"

expect(res) == IF res = "poisoned" THEN "panic" ELSE "guard"

\* First half of Bus::read / Bus::write: self.get_device(addr).
resolve(t, kind, addr) ==
    LET g == get_device(devices, addr)
    IN  /\ tpc[t] = "idle"
        /\ ccalls < MaxCalls
        /\ ccalls' = ccalls + 1
        /\ IF g # {}
           THEN LET x == CHOOSE y \in g : TRUE
                IN  /\ tpc' = [tpc EXCEPT ![t] = "resolved"]
                    /\ tcall' = [tcall EXCEPT ![t] = [kind |-> kind, dev |-> x.dev]]
           ELSE /\ tpc' = [tpc EXCEPT ![t] = "false"]
                /\ tcall' = [tcall EXCEPT ![t] = [kind |-> kind, dev |-> "none"]]
        /\ UNCHANGED <<lock_holder, poisoned, hist, busvars, gicvars, attrvars>>

TRead(t, addr) == resolve(t, "read", addr)

TWrite(t, addr) == resolve(t, "write", addr)

\* dev.lock().expect(..): the thread enters the device operation holding the
\* guard, or panics; the guard carried by the PoisonError is dropped by the
\* unwinding, so the lock is free again.
TLock(t) ==
    LET d == tcall[t].dev
        res == mutex_lock(lock_holder[d], poisoned[d])
    IN  /\ tpc[t] = "resolved"
        /\ res # "blocked"
        /\ IF expect(res) = "guard"
           THEN /\ tpc' = [tpc EXCEPT ![t] = "in_dev"]
                /\ lock_holder' = [lock_holder EXCEPT ![d] = t]
                /\ hist' = Append(hist, [t |-> t, dev |-> d, ev |-> "begin"])
           ELSE /\ tpc' = [tpc EXCEPT ![t] = "panicked"]
                /\ UNCHANGED <<lock_holder, hist>>
        /\ UNCHANGED <<tcall, poisoned, ccalls, busvars, gicvars, attrvars>>

\* The device's read / write returns; the guard is dropped, the call is
\* about to return true.
TDevReturn(t) ==
    LET d == tcall[t].dev
    IN  /\ tpc[t] = "in_dev"
        /\ tpc' = [tpc EXCEPT ![t] = "true"]
        /\ lock_holder' = [lock_holder EXCEPT ![d] = 0]
        /\ hist' = Append(hist, [t |-> t, dev |-> d, ev |-> "end"])
        /\ UNCHANGED <<tcall, poisoned, ccalls, busvars, gicvars, attrvars>>

\* The device's read / write panics: the guard is dropped while the thread
\* unwinds, which poisons the Mutex and releases it.
TDevPanic(t) ==
    LET d == tcall[t].dev
    IN  /\ tpc[t] = "in_dev"
        /\ tpc' = [tpc EXCEPT ![t] = "panicked"]
        /\ lock_holder' = [lock_holder EXCEPT ![d] = 0]
        /\ poisoned' = [poisoned EXCEPT ![d] = TRUE]
        /\ hist' = Append(hist, [t |-> t, dev |-> d, ev |-> "panic"])
        /\ UNCHANGED <<tcall, ccalls, busvars, gicvars, attrvars>>

\* The call returns true / false to its caller; the thread may call again.
TReturn(t) ==
    /\ tpc[t] \in {"true", "false"}
    /\ tpc' = [tpc EXCEPT ![t] = "idle"]
    /\ tcall' = [tcall EXCEPT ![t] = NoTCall]
    /\ UNCHANGED <<lock_holder, poisoned, hist, ccalls, busvars, gicvars, attrvars>>

ConcNext ==
    \/ \E t \in Threads, a \in Addr : TRead(t, a)
    \/ \E t \in Threads, a \in Addr : TWrite(t, a)
    \/ \E t \in Threads : TLock(t)
    \/ \E t \in Threads : TDevReturn(t)
    \/ \E t \in Threads : TDevPanic(t)
    \/ \E t \in Threads : TReturn(t)

SpecBusConc == ConcInit /\ [][ConcNext]_vars

\* The threads executing inside device d's read or write.
Inside(d) == {t \in Threads : tpc[t] = "in_dev" /\ tcall[t].dev = d}

\* The events of device d, in the order the device observed them.
DevHist(d) == SelectSeq(hist, LAMBDA e : e.dev = d)

\* A serial history: every access is begun and then ended (or failed) by the
\* same thread before the next access begins.
Serial(h) ==
    \A i \in 1 .. Len(h) :
        IF i % 2 = 1
        THEN h[i].ev = "begin"
        ELSE h[i].ev \in {"end", "panic"} /\ h[i].t = h[i - 1].t

\* C15: at most one thread at a time executes inside a given device's read
\* or write, and the device observes the accesses of all threads as one
\* serial history.
C15_MutualExclusion ==
    \A d \in Devices :
        /\ Cardinality(Inside(d)) <= 1
        /\ Serial(DevHist(d))
        /\ (Inside(d) # {}) <=> (Len(DevHist(d)) % 2 = 1)

\* Two threads contend for one device: one is inside, the other waits at
\* the lock, and an earlier access to the device has already completed.
C15_Witness ==
    \E d \in Devices, t \in Threads, u \in Threads :
        /\ t # u
        /\ tpc[t] = "in_dev" /\ tcall[t].dev = d
        /\ tpc[u] = "resolved" /\ tcall[u].dev = d
        /\ Len(DevHist(d)) >= 3

\* C16: a call that reaches the lock of a poisoned device panics: it does
\* not enter the device's read or write and does not return true or false;
\* a call that reaches the lock of a device that is not poisoned enters it.
C16_PoisonedLockPanics ==
    [][\A t \in Threads :
          (tpc[t] = "resolved" /\ tpc'[t] # "resolved")
              => IF poisoned[tcall[t].dev]
                 THEN tpc'[t] = "panicked" /\ hist' = hist
                 ELSE tpc'[t] = "in_dev"]_vars

\* A device was poisoned, an access to another device completed after that,
\* and a thread that went for the poisoned device panicked at its lock.
C16_Witness ==
    \E d \in Devices, t \in Threads, i \in 1 .. Len(hist), j \in 1 .. Len(hist) :
        /\ i < j
        /\ hist[i].ev = "panic" /\ hist[i].dev = d
        /\ hist[j].ev = "end" /\ hist[j].dev # d
        /\ poisoned[d]
        /\ tpc[t] = "panicked" /\ tcall[t].dev = d
        /\ \A k \in 1 .. Len(hist) : ~(hist[k].t = t /\ hist[k].ev = "panic")

(***************************************************************************)
(* VgicSysRegEngine::kvm_device_attr (gicv2/regs/icc_regs.rs).  A u64 is   *)
(* the set of the positions of its 1-bits, so that the shifts and masks    *)
(* keep their full width.                                                  *)
(***************************************************************************)
U64_BITS == 64

KVM_DEV_ARM_VGIC_CPUID_SHIFT == 32

KVM_DEV_ARM_VGIC_OFFSET_SHIFT == 0

Bit == 0 .. (U64_BITS - 1)

\* The literals 0xff and 0xffffffff.
lit_0xff == 0 .. 7

lit_0xffffffff == 0 .. 31

\* `x << n` on u64 with n < 64: the bits shifted past bit 63 are dropped.
shl(x, n) == {b + n : b \in x} \cap Bit

\* `x & y` and `x | y`.
bitand(x, y) == x \cap y

bitor(x, y) == x \cup y

\* The `attr` field built by kvm_device_attr(offset, val, cpuid).
kvm_device_attr_unmasked(offset, cpuid) ==
    bitor(shl(cpuid, KVM_DEV_ARM_VGIC_CPUID_SHIFT),
          shl(offset, KVM_DEV_ARM_VGIC_OFFSET_SHIFT))

kvm_device_attr(offset, cpuid) ==
    bitor(bitand(shl(cpuid, KVM_DEV_ARM_VGIC_CPUID_SHIFT),
                 shl(lit_0xff, KVM_DEV_ARM_VGIC_CPUID_SHIFT)),
          bitand(shl(offset, KVM_DEV_ARM_VGIC_OFFSET_SHIFT),
                 shl(lit_0xffffffff, KVM_DEV_ARM_VGIC_OFFSET_SHIFT)))

\* Bit positions the arguments are drawn from: below, at and above the
\* 8-bit and 32-bit field boundaries, and the top bit.
CpuidBits == {0, 1, 7, 8, 31, 32, 63}

OffsetBits == {0, 2, 31, 32, 39, 63}

AttrInit ==
    /\ attr_pc = "in"
    /\ attr_cpuid \in SUBSET CpuidBits
    /\ attr_offset \in SUBSET OffsetBits
    /\ attr_out = {}
    /\ overflow_checks = FALSE
    /\ devices = {}
    /\ call = NoCall
    /\ GicIdle
    /\ regs = <<>>
    /\ regs0 = <<>>
    /\ ConcIdle

AttrCall ==
    /\ attr_pc = "in"
    /\ attr_out' = kvm_device_attr(attr_offset, attr_cpuid)
    /\ attr_pc' = "out"
    /\ UNCHANGED <<attr_cpuid, attr_offset, busvars, gicvars, concvars>>

AttrNext == AttrCall

SpecAttr == AttrInit /\ [][AttrNext]_vars

\* x mod 2^k and x * 2^k on sets of bit positions.
ModPow2(x, k) == {b \in x : b < k}

MulPow2(x, k) == {b + k : b \in x}

\* C20: the attribute identifier equals ((selector mod 2^8) * 2^32) +
\* (offset mod 2^32): the selector field lies in bits 32..39, the offset
\* field in bits 0..31, the fields share no bit (so the sum is their union)
\* and every other bit is zero.
C20_AttrLayout ==
    attr_pc = "out" =>
        LET sel == MulPow2(ModPow2(attr_cpuid, 8), 32)
            off == ModPow2(attr_offset, 32)
        IN  /\ attr_out = sel \cup off
            /\ sel \subseteq 32 .. 39
            /\ off \subseteq 0 .. 31
            /\ sel \cap off = {}
            /\ attr_out \cap (40 .. 63) = {}

\* The function was applied to a selector with bits inside and above its
\* 8-bit field and to an offset with bits inside and above its 32-bit field.
C20_Witness ==
    /\ attr_pc = "out"
    /\ {7, 8, 63} \subseteq attr_cpuid
    /\ {31, 32, 39} \subseteq attr_offset
    /\ {31, 39} \subseteq attr_out

(***************************************************************************)
(* Independence of accesses to different devices.                          *)
(***************************************************************************)
\* The threads that wait for, or execute inside, device d.
Engaged(d) == {t \in Threads : tpc[t] \in {"resolved", "in_dev"} /\ tcall[t].dev = d}

\* C21: a lock is held only by a thread executing inside that very device,
\* the lookup of an idle thread is never blocked, and a call resolved to a
\* device no other thread waits for or executes in can always take the lock,
\* whatever other threads do on other devices.
C21_OtherDeviceNotBlocked ==
    /\ \A d \in Devices :
          lock_holder[d] # 0 =>
              tpc[lock_holder[d]] = "in_dev" /\ tcall[lock_holder[d]].dev = d
    /\ \A u \in Threads :
          /\ (tpc[u] = "idle" /\ ccalls < MaxCalls)
                => \A a \in Addr : ENABLED TRead(u, a) /\ ENABLED TWrite(u, a)
          /\ (tpc[u] = "resolved" /\ Engaged(tcall[u].dev) = {u})
                => ENABLED TLock(u)
          /\ tpc[u] = "in_dev" => ENABLED TDevReturn(u)

\* A thread is still inside device A while another thread's access to a
\* different device B began and completed.
C21_Witness ==
    \E t \in Threads, u \in Threads, i \in 1 .. Len(hist), j \in 1 .. Len(hist) :
        /\ t # u /\ i < j /\ j < Len(hist)
        /\ tpc[t] = "in_dev"
        /\ hist[i] = [t |-> t, dev |-> tcall[t].dev, ev |-> "begin"]
        /\ \A k \in (i + 1) .. Len(hist) : hist[k].t # t
        /\ hist[j].t = u /\ hist[j].ev = "begin" /\ hist[j].dev # tcall[t].dev
        /\ hist[j + 1].t = u /\ hist[j + 1].ev = "end"
        /\ tpc[u] = "true"

(***************************************************************************)
(* Acceptance of disjoint inserts and the range-end arithmetic.            *)
(***************************************************************************)
\* The insert just made had len > 0, its last address base + len - 1 lies in
\* the address space, and its range meets no range stored before the call.
DisjointInsert ==
    /\ call'.op = "insert"
    /\ call'.len > 0
    /\ call'.addr + call'.len - 1 <= AddrSpace - 1
    /\ \A e \in devices : ~Intersects(e, call'.addr, call'.len)

\* C22: an insert with len > 0 whose range lies in the address space and is
\* disjoint from every stored range returns Ok, adds exactly its own entry
\* and leaves every stored range and its device handle unchanged.
C22_DisjointInsertAccepted ==
    [][DisjointInsert =>
          /\ call'.result = "Ok"
          /\ devices' = devices \cup {BusRange(call'.addr, call'.len, call'.dev)}
          /\ BusRange(call'.addr, call'.len, call'.dev) \notin devices]_vars

\* The same statement for the inserts whose base + len itself stays below
\* the top of the address space.
DisjointInsertBelowTop ==
    [][(DisjointInsert /\ call'.addr + call'.len < AddrSpace) =>
          /\ call'.result = "Ok"
          /\ devices' = devices \cup {BusRange(call'.addr, call'.len, call'.dev)}
          /\ BusRange(call'.addr, call'.len, call'.dev) \notin devices]_vars

\* C23: whenever insert gets as far as computing the range end, the
\* computation neither fails nor wraps: the call does not panic, the lookup
\* key equals base + len - 1 with base + len inside the integer width, and
\* the stored ranges are pairwise disjoint afterwards.
C23_RangeEndExact ==
    [][(/\ call'.op = "insert"
        /\ ~zero_len(call'.len)
        /\ get_device(devices, call'.addr) = {})
       => /\ call'.result # "Panic"
          /\ ~overflows(call'.addr, call'.len)
          /\ range_end(call'.addr, call'.len) = call'.addr + call'.len - 1
          /\ \A e, f \in devices' : e # f => ~Intersects(e, f.base, f.len)]_vars

(***************************************************************************)
(* Selectors and attribute identifiers.                                    *)
(***************************************************************************)
\* C24: for the register offset of the call made, every affinity identifier
\* different from the one passed gives a different attribute identifier.
C24_DistinctSelectorsDistinctAttrs ==
    attr_pc = "out" =>
        \A other \in SUBSET CpuidBits :
            other # attr_cpuid => kvm_device_attr(attr_offset, other) # attr_out

(***************************************************************************)
(* Progress of concurrent dispatch.  The same calls as above, made for     *)
(* ever: no event log and no call budget.  Device operations return.       *)
(* Every thread that can take a step of a call in progress eventually      *)
(* takes it; a thread waiting for a Mutex gets it if it is free again and  *)
(* again.  No fairness is put on starting a call.                          *)
(***************************************************************************)
\* The MutexGuard temporary is dropped at the end of the statement.
guard_leaked(holders, d) == holders

guard_drop(holders, d) == [holders EXCEPT ![d] = 0]

live_resolve(t, kind, addr) ==
    LET g == get_device(devices, addr)
    IN  /\ tpc[t] = "idle"
        /\ IF g # {}
           THEN LET x == CHOOSE y \in g : TRUE
                IN  /\ tpc' = [tpc EXCEPT ![t] = "resolved"]
                    /\ tcall' = [tcall EXCEPT ![t] = [kind |-> kind, dev |-> x.dev]]
           ELSE /\ tpc' = [tpc EXCEPT ![t] = "false"]
                /\ tcall' = [tcall EXCEPT ![t] = [kind |-> kind, dev |-> "none"]]
        /\ UNCHANGED <<lock_holder, poisoned, hist, ccalls, busvars, gicvars,
                       attrvars>>

LiveRead(t, addr) == live_resolve(t, "read", addr)

LiveWrite(t, addr) == live_resolve(t, "write", addr)

LiveLock(t) ==
    LET d == tcall[t].dev
        res == mutex_lock(lock_holder[d], poisoned[d])
    IN  /\ tpc[t] = "resolved"
        /\ res # "blocked"
        /\ IF expect(res) = "guard"
           THEN /\ tpc' = [tpc EXCEPT ![t] = "in_dev"]
                /\ lock_holder' = [lock_holder EXCEPT ![d] = t]
           ELSE /\ tpc' = [tpc EXCEPT ![t] = "panicked"]
                /\ UNCHANGED lock_holder
        /\ UNCHANGED <<tcall, poisoned, hist, ccalls, busvars, gicvars, attrvars>>

LiveDevReturn(t) ==
    /\ tpc[t] = "in_dev"
    /\ tpc' = [tpc EXCEPT ![t] = "true"]
    /\ lock_holder' = guard_drop(lock_holder, tcall[t].dev)
    /\ UNCHANGED <<tcall, poisoned, hist, ccalls, busvars, gicvars, attrvars>>

LiveReturn(t) ==
    /\ tpc[t] \in {"true", "false"}
    /\ tpc' = [tpc EXCEPT ![t] = "idle"]
    /\ tcall' = [tcall EXCEPT ![t] = NoTCall]
    /\ UNCHANGED <<lock_holder, poisoned, hist, ccalls, busvars, gicvars, attrvars>>

LiveNext ==
    \/ \E t \in Threads, a \in Addr : LiveRead(t, a)
    \/ \E t \in Threads, a \in Addr : LiveWrite(t, a)
    \/ \E t \in Threads : LiveLock(t)
    \/ \E t \in Threads : LiveDevReturn(t)
    \/ \E t \in Threads : LiveReturn(t)

LiveFairness ==
    \A t \in Threads :
        /\ SF_vars(LiveLock(t))
        /\ WF_vars(LiveDevReturn(t))
        /\ WF_vars(LiveReturn(t))

SpecBusLive == ConcInit /\ [][LiveNext]_vars /\ LiveFairness

\* The device locks thread t holds.
Held(t) == {d \in Devices : lock_holder[d] = t}

\* Some call in progress can take a step.
CanStep == \E u \in Threads : ENABLED LiveLock(u) \/ ENABLED LiveDevReturn(u)

====
